---------------------------- MODULE Spec2Model ----------------------------
(***************************************************************************)
(* Universal Image Loader (js/universal-image-loader.js and its sibling    *)
(* copy).  A JavaScript string is a sequence of one-character strings, so  *)
(* startsWith, substring, replace, split and concatenation are computed    *)
(* character by character, as the script computes them.                    *)
(***************************************************************************)
EXTENDS Integers, Sequences, FiniteSets, TLC

(***************************************************************************)
(* Bounds of the model.                                                    *)
(***************************************************************************)
\* longest body of a path handed to fixImagePath, in chunks of BodyChunks
MaxChunks == 2
\* deepest directory nesting of the document URL, in segments of DirNames
MaxDirs == 3
\* number of img[data-load] elements that may enter the document
MaxElems == 2
\* longest log of sources assigned to one element
MaxAssign == 3

(***************************************************************************)
(* String literals of the scripts.                                         *)
(***************************************************************************)
Slash == <<"/">>
DotDotSlash == <<".", ".", "/">>
DotSlash == <<".", "/">>
ImagesSlash == <<"i", "m", "a", "g", "e", "s", "/">>
SlashImagesSlash == Slash \o ImagesSlash
ImagesImagesSlash == ImagesSlash \o ImagesSlash
Http == <<"h", "t", "t", "p">>
HttpScheme == Http \o <<":", "/", "/">>
HttpsScheme == Http \o <<"s", ":", "/", "/">>
FileScheme == <<"f", "i", "l", "e", ":", "/", "/">>
FileSchemeRoot == FileScheme \o Slash
DotHtml == <<".", "h", "t", "m", "l">>
Explore == <<"e", "x", "p", "l", "o", "r", "e">>
Game == <<"g", "a", "m", "e">>
UpUpImages == DotDotSlash \o DotDotSlash \o ImagesSlash
UpExploreImages == DotDotSlash \o Explore \o Slash \o ImagesSlash
ExploreImages == Explore \o Slash \o ImagesSlash
Empty == << >>
APng == <<"a", ".", "p", "n", "g">>

(***************************************************************************)
(* String.prototype methods the scripts use.                               *)
(***************************************************************************)
startsWith(s, p) == Len(s) >= Len(p) /\ SubSeq(s, 1, Len(p)) = p

endsWith(s, p) == Len(s) >= Len(p) /\ SubSeq(s, Len(s) - Len(p) + 1, Len(s)) = p

\* s.substring(n)
substring(s, n) == SubSeq(s, n + 1, Len(s))

\* s.indexOf(p) !== -1
includes(s, p) == \E i \in 1..(Len(s) - Len(p) + 1) : SubSeq(s, i, i + Len(p) - 1) = p

\* s.replace(/^p/, '')
replacePrefix(s, p) == IF startsWith(s, p) THEN substring(s, Len(p)) ELSE s

\* s.split('/'): the pieces between separators, empty pieces included
RECURSIVE splitFrom(_, _)
splitFrom(s, cur) ==
    IF s = << >> THEN <<cur>>
    ELSE IF Head(s) = "/" THEN <<cur>> \o splitFrom(Tail(s), << >>)
    ELSE splitFrom(Tail(s), Append(cur, Head(s)))

split(s) == splitFrom(s, << >>)

\* parts.filter(function(p) { return p && p !== ''; })
filterNonEmpty(parts) == SelectSeq(parts, LAMBDA p : p # << >>)

\* if (parts.length > 0 && parts[parts.length - 1].endsWith('.html')) parts.pop()
popHtml(parts) ==
    IF Len(parts) > 0 /\ endsWith(parts[Len(parts)], DotHtml)
    THEN SubSeq(parts, 1, Len(parts) - 1)
    ELSE parts

\* parts.join('/')
RECURSIVE join(_)
join(parts) ==
    IF parts = << >> THEN << >>
    ELSE IF Len(parts) = 1 THEN parts[1]
    ELSE parts[1] \o Slash \o join(Tail(parts))

\* s.replace(/\/+/g, '/'): every run of separators becomes one separator
RECURSIVE collapseSlashes(_)
collapseSlashes(s) ==
    IF Len(s) < 2 THEN s
    ELSE IF s[1] = "/" /\ s[2] = "/" THEN collapseSlashes(Tail(s))
    ELSE <<s[1]>> \o collapseSlashes(Tail(s))

\* s.replace(/\\/g, '/')
RECURSIVE replaceBackslashes(_)
replaceBackslashes(s) ==
    IF s = << >> THEN << >>
    ELSE <<IF Head(s) = "\\" THEN "/" ELSE Head(s)>> \o replaceBackslashes(Tail(s))

\* decodeURIComponent over the escapes a serialised directory name carries here: %20
RECURSIVE decodeURIComponent(_)
decodeURIComponent(s) ==
    IF s = << >> THEN << >>
    ELSE IF startsWith(s, <<"%", "2", "0">>)
         THEN <<" ">> \o decodeURIComponent(substring(s, 3))
         ELSE <<Head(s)>> \o decodeURIComponent(Tail(s))

\* array.indexOf(x), zero-based, -1 when absent
indexOf(parts, x) ==
    IF \E i \in 1..Len(parts) : parts[i] = x
    THEN (CHOOSE i \in 1..Len(parts) : parts[i] = x /\ \A j \in 1..(i - 1) : parts[j] # x) - 1
    ELSE -1


(***************************************************************************)
(* window.location: the href is a serialised URL, scheme://host/path.      *)
(***************************************************************************)
RECURSIVE fromFirstSlash(_)
fromFirstSlash(s) ==
    IF s = << >> THEN Slash
    ELSE IF Head(s) = "/" THEN s
    ELSE fromFirstSlash(Tail(s))

\* new URL(url).pathname, window.location.pathname: what follows scheme://host
pathname(url) ==
    IF startsWith(url, HttpsScheme) THEN fromFirstSlash(substring(url, Len(HttpsScheme)))
    ELSE IF startsWith(url, HttpScheme) THEN fromFirstSlash(substring(url, Len(HttpScheme)))
    ELSE fromFirstSlash(substring(url, Len(FileScheme)))

\* the file:// branch of getFileLocation
getFileLocationFile(url) ==
    LET filePath == replaceBackslashes(decodeURIComponent(replacePrefix(url, FileSchemeRoot)))
        parts == popHtml(split(filePath))
    IN  [fullPath |-> filePath, parts |-> filterNonEmpty(parts), isFileProtocol |-> TRUE]

\* the http/https branch of getFileLocation
getFileLocationHttp(url) ==
    LET path == pathname(url)
        parts == popHtml(filterNonEmpty(split(path)))
    IN  [fullPath |-> path, parts |-> parts, isFileProtocol |-> FALSE]

getFileLocation(url) ==
    IF startsWith(url, FileScheme) THEN getFileLocationFile(url)
    ELSE getFileLocationHttp(url)

(***************************************************************************)
(* The four-way directory classification of fixImagePath.                  *)
(***************************************************************************)
\* the loop: index of the first segment equal to 'explore', -1 when none
exploreIndex(dirParts) == indexOf(dirParts, Explore)

\* the loop: index of the first segment equal to 'game', -1 when none
gameIndex(dirParts) == indexOf(dirParts, Game)

isInExplore(dirParts) == exploreIndex(dirParts) >= 0

\* slip: the order of the two segments is not looked at
isInExploreGame_anyOrder(dirParts) == isInExplore(dirParts) /\ gameIndex(dirParts) >= 0

isInExploreGame(dirParts) == isInExplore(dirParts) /\ gameIndex(dirParts) > exploreIndex(dirParts)

isInRootGame(dirParts) == gameIndex(dirParts) >= 0 /\ ~isInExplore(dirParts)

\* slip: the redundant 'images/' prefix is not stripped
fixAbsolute_keepImages(path, dirParts) ==
    IF isInExploreGame(dirParts) THEN UpUpImages \o path
    ELSE IF isInExplore(dirParts) THEN ImagesSlash \o path
    ELSE IF isInRootGame(dirParts) THEN UpExploreImages \o path
    ELSE ExploreImages \o path

\* slip: from game/ the images are looked for one level up, outside explore/
fixAbsolute_rootGameUp(path, dirParts) ==
    IF isInExploreGame(dirParts) THEN UpUpImages \o replacePrefix(path, ImagesSlash)
    ELSE IF isInExplore(dirParts) THEN ImagesSlash \o replacePrefix(path, ImagesSlash)
    ELSE IF isInRootGame(dirParts) THEN DotDotSlash \o ImagesSlash \o replacePrefix(path, ImagesSlash)
    ELSE ExploreImages \o replacePrefix(path, ImagesSlash)

\* the branch for a path that starts with '/'
fixAbsolute(path, dirParts) ==
    IF isInExploreGame(dirParts) THEN UpUpImages \o replacePrefix(path, ImagesSlash)
    ELSE IF isInExplore(dirParts) THEN ImagesSlash \o replacePrefix(path, ImagesSlash)
    ELSE IF isInRootGame(dirParts) THEN UpExploreImages \o replacePrefix(path, ImagesSlash)
    ELSE ExploreImages \o replacePrefix(path, ImagesSlash)

\* slip: a leading './' is kept
fixRelative_keepDotSlash(path, dirParts) ==
    IF ~startsWith(path, DotDotSlash) /\ ~startsWith(path, ImagesSlash)
    THEN IF isInExplore(dirParts) /\ ~isInExploreGame(dirParts) THEN ImagesSlash \o path
         ELSE IF isInExploreGame(dirParts) THEN UpUpImages \o path
         ELSE path
    ELSE path

\* the tail of fixImagePath: './' stripped, then the bare relative path
fixRelative(path0, dirParts) ==
    LET path == IF startsWith(path0, DotSlash) THEN substring(path0, 2) ELSE path0
    IN  IF ~startsWith(path, DotDotSlash) /\ ~startsWith(path, ImagesSlash)
        THEN IF isInExplore(dirParts) /\ ~isInExploreGame(dirParts) THEN ImagesSlash \o path
             ELSE IF isInExploreGame(dirParts) THEN UpUpImages \o path
             ELSE path
        ELSE path

fixImagePathIn(originalPath, dirParts) ==
    IF startsWith(originalPath, Slash) THEN fixAbsolute(substring(originalPath, 1), dirParts)
    ELSE IF startsWith(originalPath, DotDotSlash) THEN originalPath
    ELSE fixRelative(originalPath, dirParts)

\* slip: only 'http://' is taken for a scheme
fixImagePath_httpOnly(originalPath, url) ==
    IF startsWith(originalPath, HttpScheme)
    THEN originalPath
    ELSE fixImagePathIn(originalPath, getFileLocation(url).parts)

\* fixImagePath of js/universal-image-loader.js, on a page whose URL is url
fixImagePath(originalPath, url) ==
    IF startsWith(originalPath, HttpScheme) \/ startsWith(originalPath, HttpsScheme)
    THEN originalPath
    ELSE fixImagePathIn(originalPath, getFileLocation(url).parts)

(***************************************************************************)
(* fixImagePath of the sibling copy of the script.                         *)
(***************************************************************************)
pathParts_part000(url) == popHtml(filterNonEmpty(split(pathname(url))))

fixAbsolute_part000(path, pathParts) ==
    LET inExplore == indexOf(pathParts, Explore) >= 0
        inGame == indexOf(pathParts, Game) >= 0
    IN  IF inExplore /\ inGame THEN DotDotSlash \o DotDotSlash \o path
        ELSE IF inExplore THEN path
        ELSE IF inGame
             THEN IF startsWith(path, ImagesSlash) THEN DotDotSlash \o Explore \o Slash \o path
                  ELSE DotDotSlash \o path
        ELSE IF startsWith(path, ImagesSlash) THEN Explore \o Slash \o path
             ELSE path

fixRelative_part000(path0, pathParts) ==
    LET path == IF startsWith(path0, DotSlash) THEN substring(path0, 2) ELSE path0
        newPath == collapseSlashes(join(pathParts) \o Slash \o path)
    IN  IF startsWith(newPath, Slash) THEN substring(newPath, 1) ELSE newPath

fixImagePath_part000(path, url) ==
    IF startsWith(path, HttpScheme) \/ startsWith(path, HttpsScheme) THEN path
    ELSE IF startsWith(path, Slash) THEN fixAbsolute_part000(substring(path, 1), pathParts_part000(url))
    ELSE IF startsWith(path, DotDotSlash) THEN path
    ELSE fixRelative_part000(path, pathParts_part000(url))

(***************************************************************************)
(* Inputs: declared paths and document URLs, built from short chunks.      *)
(***************************************************************************)
RECURSIVE concat(_)
concat(chunks) == IF chunks = << >> THEN << >> ELSE Head(chunks) \o concat(Tail(chunks))

SeqsUpTo(S, n) == UNION {[1..k -> S] : k \in 0..n}

\* how a path may begin
Leads ==
    {Empty, Slash, DotSlash, DotDotSlash, DotSlash \o DotDotSlash,
     HttpScheme, HttpsScheme, Http, DotSlash \o Slash}

BodyChunks == {ImagesSlash, APng, Slash}

Paths == {l \o concat(c) : l \in Leads, c \in SeqsUpTo(BodyChunks, MaxChunks)}

DirNames == {Explore, Game, <<"m", "y", "%", "2", "0", "x">>}

FileNames == {Empty, <<"a">> \o DotHtml}

Origins == {HttpsScheme \o <<"h">>, FileScheme}

Hrefs ==
    {o \o Slash \o concat([i \in 1..Len(d) |-> d[i] \o Slash]) \o f :
        o \in Origins, d \in SeqsUpTo(DirNames, MaxDirs), f \in FileNames}

(***************************************************************************)
(* The pages and the elements of the image loader.                         *)
(***************************************************************************)
Elems == 1..MaxElems

\* data-load values: absolute, bare relative, bare relative that begins with
\* the letters 'http', scheme-prefixed, and an empty attribute
DeclaredPaths ==
    {SlashImagesSlash \o APng, APng, Http \o APng,
     HttpScheme \o <<"h">> \o Slash \o APng, Empty}

\* a root page and a page of explore/
LoaderHrefs ==
    {HttpsScheme \o <<"h">> \o Slash \o <<"a">> \o DotHtml,
     HttpsScheme \o <<"h">> \o Slash \o Explore \o Slash \o <<"a">> \o DotHtml}

Scripts == {"main", "part000"}

NoStyle == [display |-> "", visibility |-> "", opacity |-> ""]

Shown == [display |-> "block", visibility |-> "visible", opacity |-> "1"]

(***************************************************************************)
(* State.                                                                  *)
(***************************************************************************)
VARIABLES
    href,        \* window.location.href of the document
    argPath,     \* the argument of a call of fixImagePath
    retMain,     \* << >> before the call, <<result>> after it (js/universal-image-loader.js)
    ret000,      \* the same for the sibling copy of the script
    script,      \* the copy of the script the page loads
    phase,       \* "start" before the script body has run, "run" after
    listener,    \* a DOMContentLoaded listener is registered and has not fired
    timers,      \* delays of the setTimeout calls that have not fired
    scans,       \* calls of loadAllImages so far
    inDoc,       \* the element is in the document
    dataLoad,    \* its data-load attribute
    dataLoaded,  \* its data-loaded attribute is 'true'
    src,         \* << >> while it has no src, <<path>> after
    style,       \* its inline display, visibility and opacity
    handlers,    \* << >>, or the closure of its onload/onerror: dataLoadPath, fixedPath
    fetch,       \* "none", "pending", "loaded", "broken": the fetch of its current src
    loaderDisplay, \* display of the .loader/.loading-img siblings
    assigned,    \* log: every source assigned to its src, in order
    errors,      \* log: error events its onerror handled
    activations, \* log: scans that activated it
    lastOp       \* log: "none", "scan", "load", "error", "insert"

pathVars == <<argPath, retMain, ret000>>

pageVars == <<script, phase, listener, timers, scans>>

domVars == <<inDoc, dataLoad, dataLoaded, src, style, handlers, fetch, loaderDisplay>>

logVars == <<assigned, errors, activations, lastOp>>

vars == <<href, pathVars, pageVars, domVars, logVars>>

\* the document before the parser has produced any marked element
EmptyDocument ==
    /\ inDoc = [e \in Elems |-> FALSE]
    /\ dataLoad = [e \in Elems |-> Empty]
    /\ dataLoaded = [e \in Elems |-> FALSE]
    /\ src = [e \in Elems |-> << >>]
    /\ style = [e \in Elems |-> NoStyle]
    /\ handlers = [e \in Elems |-> << >>]
    /\ fetch = [e \in Elems |-> "none"]
    /\ loaderDisplay = [e \in Elems |-> ""]
    /\ assigned = [e \in Elems |-> << >>]
    /\ errors = [e \in Elems |-> 0]
    /\ activations = [e \in Elems |-> 0]
    /\ lastOp = "none"

PageNotStarted ==
    /\ phase = "start"
    /\ listener = FALSE
    /\ timers = {}
    /\ scans = 0

(***************************************************************************)
(* Calls of fixImagePath on their own.                                     *)
(***************************************************************************)
InitPath ==
    /\ href \in Hrefs
    /\ argPath \in Paths
    /\ retMain = << >>
    /\ ret000 = << >>
    /\ script = "main"
    /\ PageNotStarted
    /\ EmptyDocument

\* a page loads one copy of the script
CallFixImagePath ==
    /\ retMain = << >> /\ ret000 = << >>
    /\ retMain' = <<fixImagePath(argPath, href)>>
    /\ UNCHANGED <<href, argPath, ret000, pageVars, domVars, logVars>>

CallFixImagePath_part000 ==
    /\ retMain = << >> /\ ret000 = << >>
    /\ ret000' = <<fixImagePath_part000(argPath, href)>>
    /\ UNCHANGED <<href, argPath, retMain, pageVars, domVars, logVars>>

NextPath == CallFixImagePath \/ CallFixImagePath_part000

SpecPath == InitPath /\ [][NextPath]_vars

(***************************************************************************)
(* The image loader on a page.                                             *)
(***************************************************************************)
Init ==
    /\ href \in LoaderHrefs
    /\ script \in Scripts
    /\ argPath = Empty
    /\ retMain = << >>
    /\ ret000 = << >>
    /\ PageNotStarted
    /\ EmptyDocument

\* slip: the declared path is assigned as it is
fix_unresolved(path) == path

\* the fixImagePath of the copy the page loads
fix(path) ==
    IF script = "main" THEN fixImagePath(path, href) ELSE fixImagePath_part000(path, href)

\* slip: the data-loaded mark is not looked at
Activates_ignoreLoaded(e) == inDoc[e] /\ dataLoad[e] # Empty

\* loadAllImages goes on with an element: it is marked, not yet loaded, and
\* its data-load is not empty
Activates(e) == inDoc[e] /\ ~dataLoaded[e] /\ dataLoad[e] # Empty

\* the body of loadAllImages, over every img[data-load] of the document
loadAllImages ==
    /\ src' = [e \in Elems |-> IF Activates(e) THEN <<fix(dataLoad[e])>> ELSE src[e]]
    /\ style' = [e \in Elems |->
                    IF Activates(e) /\ script = "main" THEN Shown ELSE style[e]]
    /\ dataLoaded' = [e \in Elems |-> Activates(e) \/ dataLoaded[e]]
    /\ handlers' = [e \in Elems |->
                    IF Activates(e)
                    THEN <<[dataLoadPath |-> dataLoad[e], fixedPath |-> fix(dataLoad[e])]>>
                    ELSE handlers[e]]
    /\ fetch' = [e \in Elems |-> IF Activates(e) THEN "pending" ELSE fetch[e]]
    /\ assigned' = [e \in Elems |->
                    IF Activates(e) THEN Append(assigned[e], fix(dataLoad[e])) ELSE assigned[e]]
    /\ activations' = [e \in Elems |->
                    IF Activates(e) THEN activations[e] + 1 ELSE activations[e]]
    /\ scans' = scans + 1
    /\ lastOp' = "scan"
    /\ UNCHANGED <<inDoc, dataLoad, loaderDisplay, errors>>

NoScan ==
    UNCHANGED <<src, style, dataLoaded, handlers, fetch, assigned, activations, scans,
                inDoc, dataLoad, loaderDisplay, errors, lastOp>>

\* the body of the script: scan now or on DOMContentLoaded, and set three timers
RunScript ==
    /\ phase = "start"
    /\ phase' = "run"
    /\ timers' = {50, 200, 500}
    /\ \E readyState \in {"loading", "interactive", "complete"} :
          IF readyState = "loading"
          THEN listener' = TRUE /\ NoScan
          ELSE listener' = FALSE /\ loadAllImages
    /\ UNCHANGED <<href, pathVars, script>>

DOMContentLoaded ==
    /\ listener
    /\ listener' = FALSE
    /\ loadAllImages
    /\ UNCHANGED <<href, pathVars, script, phase, timers>>

Min(S) == CHOOSE x \in S : \A y \in S : x <= y

\* the timers fire in the order of their delays
TimerFires ==
    /\ timers # {}
    /\ timers' = timers \ {Min(timers)}
    /\ loadAllImages
    /\ UNCHANGED <<href, pathVars, script, phase, listener>>

\* the parser or another script puts a marked element into the document
InsertElement(e, path) ==
    /\ ~inDoc[e]
    /\ \A d \in Elems : d < e => inDoc[d]
    /\ inDoc' = [inDoc EXCEPT ![e] = TRUE]
    /\ dataLoad' = [dataLoad EXCEPT ![e] = path]
    /\ lastOp' = "insert"
    /\ UNCHANGED <<href, pathVars, pageVars, dataLoaded, src, style, handlers, fetch,
                   loaderDisplay, assigned, errors, activations>>

\* img.onload
OnLoad(e) ==
    /\ fetch[e] = "pending"
    /\ handlers[e] # << >>
    /\ fetch' = [fetch EXCEPT ![e] = "loaded"]
    /\ style' = [style EXCEPT ![e] = Shown]
    /\ loaderDisplay' = [loaderDisplay EXCEPT ![e] = "none"]
    /\ lastOp' = "load"
    /\ UNCHANGED <<href, pathVars, pageVars, inDoc, dataLoad, dataLoaded, src, handlers,
                   assigned, errors, activations>>

\* what img.onerror assigns to this.src: << >> when it assigns nothing
onerrorSrc(h) ==
    LET originalPath == h.dataLoadPath
        altPath == Explore \o originalPath
    IN  IF originalPath # h.fixedPath /\ ~startsWith(originalPath, Http)
        THEN <<originalPath>>
        ELSE IF script = "main" /\ startsWith(originalPath, SlashImagesSlash)
                                /\ altPath # h.fixedPath
             THEN <<altPath>>
             ELSE << >>

\* img.onerror; an assignment to src starts the fetch of that source
OnError(e) ==
    /\ fetch[e] = "pending"
    /\ handlers[e] # << >>
    /\ LET next == onerrorSrc(handlers[e][1])
       IN  IF next = << >>
           THEN /\ fetch' = [fetch EXCEPT ![e] = "broken"]
                /\ UNCHANGED <<src, assigned>>
           ELSE /\ Len(assigned[e]) < MaxAssign
                /\ src' = [src EXCEPT ![e] = next]
                /\ assigned' = [assigned EXCEPT ![e] = Append(@, next[1])]
                /\ fetch' = [fetch EXCEPT ![e] = "pending"]
    /\ errors' = [errors EXCEPT ![e] = @ + 1]
    /\ lastOp' = "error"
    /\ UNCHANGED <<href, pathVars, pageVars, inDoc, dataLoad, dataLoaded, style, handlers,
                   loaderDisplay, activations>>

Next ==
    \/ RunScript
    \/ DOMContentLoaded
    \/ TimerFires
    \/ \E e \in Elems, path \in DeclaredPaths : InsertElement(e, path)
    \/ \E e \in Elems : OnLoad(e)
    \/ \E e \in Elems : OnError(e)

Spec == Init /\ [][Next]_vars

(***************************************************************************)
(* Vocabulary of the properties of fixImagePath.                           *)
(***************************************************************************)
\* the directory segments of the document URL
dirParts == getFileLocation(href).parts

Occurs(d, name) == \E i \in 1..Len(d) : d[i] = name

\* the first 'game' segment comes after the first 'explore' segment
GameAfterExplore(d) ==
    \E i \in 1..Len(d) :
        /\ d[i] = Explore
        /\ \A j \in 1..i : d[j] # Game
        /\ \E k \in (i + 1)..Len(d) : d[k] = Game

Context(d) ==
    IF Occurs(d, Explore)
    THEN IF GameAfterExplore(d) THEN "explore+game" ELSE "explore"
    ELSE IF Occurs(d, Game) THEN "root game" ELSE "root"

\* the sibling copy does not look at the order of the two segments
Context_part000(d) ==
    IF Occurs(d, Explore)
    THEN IF Occurs(d, Game) THEN "explore+game" ELSE "explore"
    ELSE IF Occurs(d, Game) THEN "root game" ELSE "root"

ImagesDirFrom(ctx) ==
    CASE ctx = "root" -> ExploreImages
      [] ctx = "explore" -> ImagesSlash
      [] ctx = "explore+game" -> UpUpImages
      [] ctx = "root game" -> UpExploreImages

SchemePrefixed(path) == startsWith(path, HttpScheme) \/ startsWith(path, HttpsScheme)

StripDotSlash(path) == IF startsWith(path, DotSlash) THEN substring(path, 2) ELSE path

\* not scheme-prefixed, not absolute, not '../'-relative, before and after './' is stripped
BareRelative(path) ==
    /\ ~SchemePrefixed(path)
    /\ ~startsWith(path, Slash)
    /\ ~startsWith(path, DotDotSlash)
    /\ ~startsWith(StripDotSlash(path), DotDotSlash)

CalledMain == retMain # << >>

Called000 == ret000 # << >>

(***************************************************************************)
(* C1.  As claimed: for every absolute path and every context the result   *)
(* of fixImagePath does not start with '/' and does not contain            *)
(* 'images/images/'.                                                       *)
(***************************************************************************)
C1_Original ==
    (CalledMain /\ startsWith(argPath, Slash)) =>
        /\ ~startsWith(retMain[1], Slash)
        /\ ~includes(retMain[1], ImagesImagesSlash)

(***************************************************************************)
(* C1, amended.  For every absolute path and every context the result does *)
(* not start with '/', and it contains 'images/images/' only when the      *)
(* input path itself contains 'images/images/'.                            *)
(***************************************************************************)
C1_AbsoluteResult ==
    (CalledMain /\ startsWith(argPath, Slash)) =>
        /\ ~startsWith(retMain[1], Slash)
        /\ includes(retMain[1], ImagesImagesSlash) => includes(argPath, ImagesImagesSlash)

C1_Witness ==
    /\ CalledMain
    /\ argPath = SlashImagesSlash \o APng
    /\ Context(dirParts) = "root game"
    /\ retMain[1] = UpExploreImages \o APng

C5_Original ==
    (CalledMain /\ BareRelative(argPath)) =>
        LET p == StripDotSlash(argPath)
            ctx == Context(dirParts)
        IN  retMain[1] = CASE ctx = "explore" -> ImagesSlash \o p
                           [] ctx = "explore+game" -> UpUpImages \o p
                           [] OTHER -> p

(***************************************************************************)
(* C5, amended.  A bare relative path that, './' stripped, begins with     *)
(* 'images/' is returned as it is in every context; any other bare         *)
(* relative path gets 'images/' in the explore context, '../../images/' in *)
(* the explore+game context and is returned as it is in the root and root  *)
(* game contexts.                                                          *)
(***************************************************************************)
C5_BareRelativeResult ==
    (CalledMain /\ BareRelative(argPath)) =>
        LET p == StripDotSlash(argPath)
            ctx == Context(dirParts)
        IN  retMain[1] = CASE startsWith(p, ImagesSlash) -> p
                           [] ctx = "explore" -> ImagesSlash \o p
                           [] ctx = "explore+game" -> UpUpImages \o p
                           [] OTHER -> p

C5_Witness ==
    /\ CalledMain
    /\ argPath = DotSlash \o APng
    /\ Context(dirParts) = "explore"
    /\ retMain[1] = ImagesSlash \o APng

(***************************************************************************)
(* C6.  A path that starts with 'http://' or 'https://' is returned        *)
(* unchanged in every context, by both copies of the script.               *)
(***************************************************************************)
C6_SchemeIdentity ==
    SchemePrefixed(argPath) =>
        /\ CalledMain => retMain[1] = argPath
        /\ Called000 => ret000[1] = argPath

C6_Witness ==
    /\ CalledMain
    /\ argPath = HttpsScheme \o ImagesSlash \o APng
    /\ Context(dirParts) = "explore"
    /\ retMain[1] = argPath

(***************************************************************************)
(* C9.  Exactly one of the four contexts applies, decided by the first     *)
(* occurrences of 'explore' and 'game' among the directory segments:       *)
(* explore+game when 'explore' occurs and the first 'game' comes after the *)
(* first 'explore', explore when 'explore' occurs otherwise, root game     *)
(* when only 'game' occurs, root otherwise.  The flags of fixImagePath and *)
(* the prefix it gives an absolute path follow that classification.        *)
(***************************************************************************)
C9_ContextClassification ==
    LET d == dirParts
        ctx == Context(d)
    IN  /\ isInExploreGame(d) <=> ctx = "explore+game"
        /\ (isInExplore(d) /\ ~isInExploreGame(d)) <=> ctx = "explore"
        /\ isInRootGame(d) <=> ctx = "root game"
        /\ (CalledMain /\ startsWith(argPath, Slash)) =>
              retMain[1] = ImagesDirFrom(ctx) \o replacePrefix(substring(argPath, 1), ImagesSlash)

\* 'game' before 'explore': the explore context, not explore+game
C9_Witness ==
    /\ CalledMain
    /\ argPath = Slash \o APng
    /\ Len(dirParts) = 2 /\ dirParts[1] = Game /\ dirParts[2] = Explore
    /\ retMain[1] = ImagesSlash \o APng

(***************************************************************************)
(* Vocabulary of the properties of the loader.                             *)
(***************************************************************************)
\* this step is a call of loadAllImages
ScanStep == scans' = scans + 1

\* the sources the onerror handler assigned to e: all but the scan's
retried(e) == SubSeq(assigned[e], 2, Len(assigned[e]))

Count(seq, x) == Cardinality({i \in 1..Len(seq) : seq[i] = x})

(***************************************************************************)
(* C2.  Retries are bounded: the error handler assigns the original path   *)
(* at most once and the explore-prefixed fallback at most once, and every  *)
(* later error event on the element assigns no source.                     *)
(***************************************************************************)
C2_BoundedRetries ==
    \A e \in Elems :
        /\ Count(retried(e), dataLoad[e]) <= 1
        /\ Count(retried(e), Explore \o dataLoad[e]) <= 1
        /\ Len(retried(e)) <= 2

(***************************************************************************)
(* C3.  For a declared path that begins with '/images/', once the resolved *)
(* path and the retry with the original path have both failed, the source  *)
(* is assigned 'explore' + original path; that fallback is never assigned  *)
(* for a declared path that does not begin with '/images/'.                *)
(***************************************************************************)
C3_ExploreFallback ==
    \A e \in Elems :
        script = "main" =>
            /\ (startsWith(dataLoad[e], SlashImagesSlash) /\ errors[e] >= 2) =>
                  (Len(assigned[e]) >= 3 /\ assigned[e][3] = Explore \o dataLoad[e])
            /\ ~startsWith(dataLoad[e], SlashImagesSlash) =>
                  Count(retried(e), Explore \o dataLoad[e]) = 0

(***************************************************************************)
(* C7.  As claimed: when a scan completes, every marked element that was   *)
(* not marked loaded when it started is marked loaded, is visible and has  *)
(* as source the path fixImagePath returns for its declared path.          *)
(***************************************************************************)
C7_Original ==
    [][(ScanStep /\ script = "main") =>
          \A e \in Elems :
              (inDoc[e] /\ ~dataLoaded[e]) =>
                  /\ dataLoaded'[e]
                  /\ style'[e] = Shown
                  /\ src'[e] = <<fixImagePath(dataLoad[e], href)>>]_vars

(***************************************************************************)
(* C7, amended.  When a scan completes, every marked element with a        *)
(* non-empty declared path that was not marked loaded when it started is   *)
(* marked loaded, is visible and has as source the path fixImagePath       *)
(* returns for its declared path; a marked element whose declared path is  *)
(* empty is left as it was.                                                *)
(***************************************************************************)
C7_ScanActivates ==
    [][(ScanStep /\ script = "main") =>
          \A e \in Elems :
              (inDoc[e] /\ ~dataLoaded[e]) =>
                  IF dataLoad[e] # Empty
                  THEN /\ dataLoaded'[e]
                       /\ style'[e] = Shown
                       /\ src'[e] = <<fixImagePath(dataLoad[e], href)>>
                  ELSE /\ ~dataLoaded'[e]
                       /\ style'[e] = style[e]
                       /\ src'[e] = src[e]]_vars

\* a scan has just activated element 1 on a page of explore/
C7_Witness ==
    /\ script = "main"
    /\ lastOp = "scan"
    /\ Context(getFileLocation(href).parts) = "explore"
    /\ inDoc[1] /\ dataLoad[1] = SlashImagesSlash \o APng
    /\ dataLoaded[1] /\ errors[1] = 0 /\ fetch[1] = "pending"
    /\ style[1] = Shown
    /\ src[1] = <<ImagesSlash \o APng>>

(***************************************************************************)
(* C8.  On the first load failure of an activated element the error        *)
(* handler assigns the untransformed declared path as the source if and    *)
(* only if the declared path differs from the resolved path attempted.     *)
(***************************************************************************)
C8_RetryIffDifferent ==
    \A e \in Elems :
        errors[e] >= 1 =>
            ((Len(assigned[e]) >= 2 /\ assigned[e][2] = dataLoad[e])
                <=> dataLoad[e] # assigned[e][1])

(***************************************************************************)
(* C10.  Across the page-ready scan, the three timed scans, the load and   *)
(* error callbacks and the insertion of elements, a scan activates each    *)
(* element at most once: a scan that finds an element marked loaded leaves *)
(* its source, its styles, its handlers and its fetch as they are, so a    *)
(* source set by the error handler is not overwritten by a later scan.     *)
(***************************************************************************)
C10_ActivatedOnce ==
    [][/\ \A e \in Elems : activations'[e] <= 1
       /\ ScanStep =>
             \A e \in Elems :
                 dataLoaded[e] =>
                     /\ src'[e] = src[e]
                     /\ style'[e] = style[e]
                     /\ handlers'[e] = handlers[e]
                     /\ fetch'[e] = fetch[e]
                     /\ assigned'[e] = assigned[e]]_vars

\* a scan has just passed over an element whose source the error handler set
C10_Witness ==
    /\ lastOp = "scan"
    /\ scans >= 2
    /\ \E e \in Elems :
          /\ activations[e] = 1
          /\ errors[e] >= 1
          /\ Len(assigned[e]) >= 2
          /\ src[e] = <<dataLoad[e]>>
          /\ dataLoad[e] # assigned[e][1]

=============================================================================
